---- MODULE Spec2Model ----
(***************************************************************************)
(* Model of the RDSInstance construct (src/RDSInstance.ts): the            *)
(* constructor with its two paths (import an existing instance, create a   *)
(* new one), the validations, the default resolvers and                    *)
(* getFunctionBinding.                                                     *)
(*                                                                         *)
(* JavaScript values are modelled as strings.  UNDEF stands for            *)
(* `undefined`, ABSENT for a key an object literal does not have; an       *)
(* object (a VPC, a secret, an instance type, ...) is a non-empty string   *)
(* naming it.  Truthy is JavaScript's truthiness on those values.          *)
(***************************************************************************)
EXTENDS Integers, Sequences, FiniteSets, TLC

\* Bound on the number of getFunctionBinding calls recorded after construction.
MaxCalls == 2

UNDEF == "<undefined>"
ABSENT == "<absent>"

Truthy(v) == v # UNDEF /\ v # ABSENT /\ v # ""

-----------------------------------------------------------------------------
(* Inputs of the constructor                                               *)

\* Logical ids given to `new RDSInstance(scope, id, props)`.
Ids == {"db", "Database"}

\* props.vpc
Vpcs == {UNDEF, "vpcA"}

\* props.databaseName
DatabaseNames == {"db1", "app"}

\* props.engine: the two supported strings, a falsy one, an unsupported one
Engines == {"mysql5.7", "postgresql11.13", "", UNDEF, "mysql5.6"}

\* props.cdk.id
CdkIds == {UNDEF, "", "custom"}

\* props.cdk.secret
Secrets == {UNDEF, "importedSecret"}

\* existing rds.IDatabaseInstance handles
Handles == {"existingInstance"}

\* props.cdk.instance as RDSCdkDatabaseInstanceProps: each key is ABSENT or
\* carries a value
Bags ==
  [engine : {ABSENT, "auroraEngine"},
   vpc : {ABSENT, "vpcB"},
   databaseName : {ABSENT, "", "other"},
   credentials : {ABSENT, "fromPassword", "fromSecret"},
   vpcSubnets : {ABSENT, "PUBLIC"},
   instanceType : {ABSENT, UNDEF, "m5.large"},
   instanceIdentifier : {ABSENT, UNDEF, "my-instance"}]

EmptyBag ==
  [engine |-> ABSENT, vpc |-> ABSENT, databaseName |-> ABSENT,
   credentials |-> ABSENT, vpcSubnets |-> ABSENT, instanceType |-> ABSENT,
   instanceIdentifier |-> ABSENT]

\* props.cdk.instance: undefined, an existing construct, or a property bag
Instances ==
  {[kind |-> "undefined", handle |-> UNDEF, bag |-> EmptyBag]}
  \cup {[kind |-> "construct", handle |-> h, bag |-> EmptyBag] : h \in Handles}
  \cup {[kind |-> "props", handle |-> UNDEF, bag |-> b] : b \in Bags}

NoCdk ==
  [defined |-> FALSE, id |-> UNDEF,
   instance |-> [kind |-> "undefined", handle |-> UNDEF, bag |-> EmptyBag],
   secret |-> UNDEF]

\* props.cdk
Cdks ==
  {NoCdk}
  \cup [defined : {TRUE}, id : CdkIds, instance : Instances, secret : Secrets]

\* RDSInstanceProps
RDSInstanceProps ==
  [vpc : Vpcs, databaseName : DatabaseNames, engine : Engines, cdk : Cdks]

NoProps ==
  [vpc |-> UNDEF, databaseName |-> UNDEF, engine |-> UNDEF, cdk |-> NoCdk]

-----------------------------------------------------------------------------
(* Attributes of the resources of the provisioning library                 *)

InstanceArnOf(inst) == "arn:aws:rds:db:" \o inst

SecretArnOf(secret) == "arn:aws:secretsmanager:secret:" \o secret

\* A secret imported from a partial ARN has no full ARN
SecretFullArnOf(secret) ==
  IF secret = "importedSecret" THEN UNDEF ELSE SecretArnOf(secret) \o "-AbCdEf"

\* app.logicalPrefixedName: stage, app name, logical name
LogicalPrefixedName(name) == "dev-sst-t3-example-" \o name

\* credentials.secret of a rds.Credentials value
CredentialsSecret(credentials) ==
  IF credentials = "fromSecret" THEN "credentialsSecret" ELSE UNDEF

-----------------------------------------------------------------------------
(* Pure parts of RDSInstance                                               *)

IsCDKConstruct(instance) == instance.kind = "construct"

\* variant: a handle without its secret falls through to the create path
TakesImportPathOnlyWithSecret(props) ==
  props.cdk.defined /\ IsCDKConstruct(props.cdk.instance)
  /\ props.cdk.secret # UNDEF

\* `cdk && isCDKConstruct(cdk.instance)`
TakesImportPath(props) ==
  props.cdk.defined /\ IsCDKConstruct(props.cdk.instance)

\* `props.cdk?.id || id`
NodeId(id, props) == IF Truthy(props.cdk.id) THEN props.cdk.id ELSE id

NoError == [kind |-> "none", field |-> ""]

\* variant: the check looks at cdk.instance instead of cdk.secret
ValidateCDKPropChecksInstance(props) ==
  IF ~Truthy(props.cdk.instance.handle)
    THEN [kind |-> "missingSecret", field |-> "cdk.secret"]
    ELSE NoError

\* validateCDKPropWhenIsConstruct: the error thrown, NoError when it returns
ValidateCDKPropWhenIsConstructError(props) ==
  IF ~Truthy(props.cdk.secret)
    THEN [kind |-> "missingSecret", field |-> "cdk.secret"]
    ELSE NoError

\* `(cdk?.instance || {})`
InstanceProps(props) ==
  IF props.cdk.instance.kind = "props" THEN props.cdk.instance.bag ELSE EmptyBag

\* variant: the "vpc" check is left out
ValidateCDKPropWithoutVpcCheck(props) ==
  LET bag == IF props.cdk.instance.kind = "props"
               THEN props.cdk.instance.bag ELSE EmptyBag IN
  IF Truthy(bag.engine) THEN [kind |-> "conflict", field |-> "engine"]
  ELSE IF Truthy(bag.databaseName)
    THEN [kind |-> "conflict", field |-> "databaseName"]
  ELSE IF Truthy(bag.credentials) /\ ~Truthy(CredentialsSecret(bag.credentials))
    THEN [kind |-> "credentials", field |-> "cdk.instance.credentials"]
  ELSE NoError

\* validateCDKPropWhenIsInstanceProps: the error thrown, NoError when it returns
ValidateCDKPropWhenIsInstancePropsError(props) ==
  LET bag == InstanceProps(props) IN
  IF Truthy(bag.engine) THEN [kind |-> "conflict", field |-> "engine"]
  ELSE IF Truthy(bag.vpc) THEN [kind |-> "conflict", field |-> "vpc"]
  ELSE IF Truthy(bag.databaseName)
    THEN [kind |-> "conflict", field |-> "databaseName"]
  ELSE IF Truthy(bag.credentials) /\ ~Truthy(CredentialsSecret(bag.credentials))
    THEN [kind |-> "credentials", field |-> "cdk.instance.credentials"]
  ELSE NoError

NoEngine == [ok |-> FALSE, family |-> "", version |-> ""]

\* getEngine: ok = FALSE stands for the throw of the unsupported-engine error
GetEngine(engine) ==
  IF engine = "mysql5.7"
    THEN [ok |-> TRUE, family |-> "mysql", version |-> "5.7"]
  ELSE IF engine = "postgresql11.13"
    THEN [ok |-> TRUE, family |-> "postgres", version |-> "11.13"]
  ELSE NoEngine

\* variant: the engine string is passed on without the default
EngineWithoutDefault(engine) == engine

\* `engine || "mysql5.7"`
EngineOrDefault(engine) == IF Truthy(engine) THEN engine ELSE "mysql5.7"

\* getVpc: `if (vpc) return vpc`
VpcSupplied(vpc) == Truthy(vpc)

\* variant: the network is created with the library's default of one NAT gateway
DefaultVpcWithNatGateway(nodeId) == [path |-> nodeId \o "/vpc", natGateways |-> 1]

\* the ec2.Vpc that getVpc creates under the construct
DefaultVpc(nodeId) == [path |-> nodeId \o "/vpc", natGateways |-> 0]

\* getVpcSubnets
GetVpcSubnets(bag) ==
  IF Truthy(bag.vpc) THEN
    (IF bag.vpcSubnets = ABSENT THEN UNDEF ELSE bag.vpcSubnets)
  ELSE "PRIVATE_ISOLATED"

\* variant: the override is ignored
GetInstanceTypeAlwaysDefault(bag) == "t3.small"

\* getInstanceType
GetInstanceType(bag) ==
  IF Truthy(bag.instanceType) THEN bag.instanceType ELSE "t3.small"

\* variant: the member is written after the spread, so the base wins
SpreadBaseWins(base, bagValue) == base

\* `{ k: base, ...bag }`: the bag's own key wins, whatever its value
Spread(base, bagValue) == IF bagValue # ABSENT THEN bagValue ELSE base

\* the props object handed to `new rds.DatabaseInstance(this, "DB", {...})`
DatabaseInstanceProps(nodeId, props, engine, vpc) ==
  LET bag == InstanceProps(props) IN
  [path |-> nodeId \o "/DB",
   instanceIdentifier |->
     Spread(LogicalPrefixedName(nodeId), bag.instanceIdentifier),
   credentials |-> Spread(UNDEF, bag.credentials),
   engine |-> engine,
   vpc |-> vpc,
   vpcSubnets |-> GetVpcSubnets(bag),
   instanceType |-> GetInstanceType(bag),
   databaseName |-> props.databaseName]

\* rds.DatabaseInstance.secret: the credentials' secret, else a generated one
DatabaseInstanceSecret(dbProps) ==
  IF Truthy(dbProps.credentials) /\ Truthy(CredentialsSecret(dbProps.credentials))
    THEN CredentialsSecret(dbProps.credentials)
    ELSE dbProps.path \o "/Secret"

\* variant: the network is resolved before the engine
CreateInstanceStepsVpcFirst == <<"getVpc", "getEngine", "newDatabaseInstance">>

\* the order in which createInstance evaluates the members of the props object
CreateInstanceSteps == <<"getEngine", "getVpc", "newDatabaseInstance">>

-----------------------------------------------------------------------------
(* Accessors and getFunctionBinding                                        *)

secretArn(self) == SecretArnOf(self.secret)

instanceArn(self) == InstanceArnOf(self.cdkInstance)

databaseName(self) == self.props.databaseName

SecretResource(self) ==
  IF Truthy(SecretFullArnOf(self.secret))
    THEN SecretFullArnOf(self.secret)
    ELSE SecretArnOf(self.secret) \o "*"

\* variant: the instanceArn variable carries the secret's ARN
FunctionBindingSwappedArn(self) ==
  [clientPackage |-> "rds",
   variables |->
     [instanceArn |-> [type |-> "plain", value |-> secretArn(self)],
      secretArn |-> [type |-> "plain", value |-> secretArn(self)],
      databaseName |-> [type |-> "plain", value |-> databaseName(self)]],
   permissions |->
     [rdsData |-> <<instanceArn(self)>>,
      getSecretValue |-> <<SecretResource(self)>>,
      describeSecret |-> <<SecretResource(self)>>]]

FunctionBinding(self) ==
  [clientPackage |-> "rds",
   variables |->
     [instanceArn |-> [type |-> "plain", value |-> instanceArn(self)],
      secretArn |-> [type |-> "plain", value |-> secretArn(self)],
      databaseName |-> [type |-> "plain", value |-> databaseName(self)]],
   permissions |->
     [rdsData |-> <<instanceArn(self)>>,
      getSecretValue |-> <<SecretResource(self)>>,
      describeSecret |-> <<SecretResource(self)>>]]

-----------------------------------------------------------------------------
(* State                                                                   *)

VARIABLES
  pc,        \* position in the constructor: "new", the step about to run,
             \* "done" (returned) or "failed" (threw)
  step,      \* index into CreateInstanceSteps while pc = "createInstance"
  this,      \* fields of the RDSInstance: id, node id, props, cdk.instance, secret
  local,     \* members of createInstance's props object resolved so far
  error,     \* the error thrown by the constructor
  vpcs,      \* ec2.Vpc constructs registered in the provisioning graph
  dbs,       \* rds.DatabaseInstance constructs registered in the graph
  returned   \* descriptors returned by the getFunctionBinding calls so far

vars == <<pc, step, this, local, error, vpcs, dbs, returned>>

NoLocal == [engine |-> NoEngine, vpc |-> UNDEF]

Init ==
  /\ pc = "new"
  /\ step = 1
  /\ this = [id |-> UNDEF, nodeId |-> UNDEF, props |-> NoProps,
             cdkInstance |-> UNDEF, secret |-> UNDEF]
  /\ local = NoLocal
  /\ error = NoError
  /\ vpcs = {}
  /\ dbs = {}
  /\ returned = <<>>

\* constructor, lines 81-90: super(), the field assignments and the branch
New(id, props) ==
  /\ pc = "new"
  /\ this' = [id |-> id, nodeId |-> NodeId(id, props), props |-> props,
              cdkInstance |-> UNDEF, secret |-> UNDEF]
  /\ pc' = IF TakesImportPath(props) THEN "validateConstruct" ELSE "validateProps"
  /\ UNCHANGED <<step, local, error, vpcs, dbs, returned>>

\* `new RDSInstance(scope, id, props)` with any id and props
Construct ==
  /\ pc = "new"
  /\ \E id \in Ids, props \in RDSInstanceProps : New(id, props)

Throw(e) ==
  /\ pc' = "failed"
  /\ error' = e

ValidateCDKPropWhenIsConstruct ==
  /\ pc = "validateConstruct"
  /\ LET e == ValidateCDKPropWhenIsConstructError(this.props) IN
       IF e # NoError THEN Throw(e)
       ELSE pc' = "importInstance" /\ UNCHANGED error
  /\ UNCHANGED <<step, this, local, vpcs, dbs, returned>>

\* lines 92-93: importInstance and the secret assignment
ImportInstance ==
  /\ pc = "importInstance"
  /\ this' = [this EXCEPT !.cdkInstance = this.props.cdk.instance.handle,
                          !.secret = this.props.cdk.secret]
  /\ pc' = "done"
  /\ UNCHANGED <<step, local, error, vpcs, dbs, returned>>

ValidateCDKPropWhenIsInstanceProps ==
  /\ pc = "validateProps"
  /\ LET e == ValidateCDKPropWhenIsInstancePropsError(this.props) IN
       IF e # NoError THEN Throw(e)
       ELSE pc' = "createInstance" /\ UNCHANGED error
  /\ step' = 1
  /\ UNCHANGED <<this, local, vpcs, dbs, returned>>

AtStep(name) ==
  /\ pc = "createInstance"
  /\ step \in 1..Len(CreateInstanceSteps)
  /\ CreateInstanceSteps[step] = name

\* line 273
GetEngineStep ==
  /\ AtStep("getEngine")
  /\ LET e == GetEngine(EngineOrDefault(this.props.engine)) IN
       IF e.ok
         THEN /\ local' = [local EXCEPT !.engine = e]
              /\ step' = step + 1
              /\ UNCHANGED <<pc, error>>
         ELSE /\ Throw([kind |-> "unsupportedEngine", field |-> "engine"])
              /\ UNCHANGED <<local, step>>
  /\ UNCHANGED <<this, vpcs, dbs, returned>>

\* line 274
GetVpcStep ==
  /\ AtStep("getVpc")
  /\ IF VpcSupplied(this.props.vpc)
       THEN /\ local' = [local EXCEPT !.vpc = this.props.vpc]
            /\ UNCHANGED vpcs
       ELSE /\ vpcs' = vpcs \cup {DefaultVpc(this.nodeId)}
            /\ local' = [local EXCEPT !.vpc = DefaultVpc(this.nodeId).path]
  /\ step' = step + 1
  /\ UNCHANGED <<pc, this, error, dbs, returned>>

\* lines 270-278 and 96-97: the instance is created and stored with its secret
NewDatabaseInstance ==
  /\ AtStep("newDatabaseInstance")
  /\ LET dbProps == DatabaseInstanceProps(this.nodeId, this.props,
                                          local.engine, local.vpc)
         db == [props |-> dbProps, secret |-> DatabaseInstanceSecret(dbProps)]
     IN /\ dbs' = dbs \cup {db}
        /\ this' = [this EXCEPT !.cdkInstance = dbProps.path,
                                !.secret = db.secret]
  /\ pc' = "done"
  /\ UNCHANGED <<step, local, error, vpcs, returned>>

GetFunctionBinding ==
  /\ pc = "done"
  /\ Len(returned) < MaxCalls
  /\ returned' = Append(returned, FunctionBinding(this))
  /\ UNCHANGED <<pc, step, this, local, error, vpcs, dbs>>

Next ==
  \/ Construct
  \/ ValidateCDKPropWhenIsConstruct
  \/ ImportInstance
  \/ ValidateCDKPropWhenIsInstanceProps
  \/ GetEngineStep
  \/ GetVpcStep
  \/ NewDatabaseInstance
  \/ GetFunctionBinding

Spec == Init /\ [][Next]_vars

-----------------------------------------------------------------------------
(* Properties                                                              *)

\* the configuration the constructor was called with
HandleGiven ==
  this.props.cdk.defined /\ this.props.cdk.instance.kind = "construct"

BagGiven ==
  this.props.cdk.defined /\ this.props.cdk.instance.kind = "props"

GivenBag == IF BagGiven THEN this.props.cdk.instance.bag ELSE EmptyBag

\* a key of the bag that carries a value
Contains(v) == v # ABSENT /\ v # UNDEF

\* a non-empty value
NonEmpty(v) == v # ABSENT /\ v # UNDEF /\ v # ""

ConflictingFields == {"engine", "vpc", "databaseName"}

\* C1: with an existing-instance handle and no cdk.secret the constructor
\* fails with the missing-secret error, and neither cdk.instance nor secret
\* of the wrapper is ever set.
C1_MissingSecretFails ==
  (pc # "new" /\ HandleGiven /\ this.props.cdk.secret = UNDEF)
    => /\ pc \in {"validateConstruct", "failed"}
       /\ pc = "failed" => error.kind = "missingSecret"
       /\ this.cdkInstance = UNDEF
       /\ this.secret = UNDEF
       /\ dbs = {}

C1_Witness ==
  /\ pc = "failed"
  /\ HandleGiven
  /\ this.props.cdk.secret = UNDEF
  /\ error.kind = "missingSecret"

\* C2 as stated: a bag that contains engine, vpc or databaseName makes the
\* constructor fail with an error naming a conflicting field the bag contains,
\* and no database instance is created.
C2_ContainedFieldFails ==
  (/\ pc \notin {"new", "validateProps"}
   /\ BagGiven
   /\ \E k \in ConflictingFields : Contains(GivenBag[k]))
    => /\ pc = "failed"
       /\ error.kind = "conflict"
       /\ error.field \in ConflictingFields
       /\ Contains(GivenBag[error.field])
       /\ dbs = {}

\* C2 amended: a bag that carries a non-empty (truthy) engine, vpc or
\* databaseName makes the constructor fail with an error naming such a field
\* of the bag, and no database instance is created.
C2_TruthyFieldFails ==
  (/\ pc \notin {"new", "validateProps"}
   /\ BagGiven
   /\ \E k \in ConflictingFields : NonEmpty(GivenBag[k]))
    => /\ pc = "failed"
       /\ error.kind = "conflict"
       /\ error.field \in ConflictingFields
       /\ NonEmpty(GivenBag[error.field])
       /\ dbs = {}
       /\ vpcs = {}

C2_Witness ==
  /\ pc = "failed"
  /\ BagGiven
  /\ GivenBag.engine = ABSENT
  /\ GivenBag.vpc = "vpcB"
  /\ GivenBag.databaseName = "other"
  /\ error = [kind |-> "conflict", field |-> "vpc"]

MySql57 == [ok |-> TRUE, family |-> "mysql", version |-> "5.7"]

Postgres1113 == [ok |-> TRUE, family |-> "postgres", version |-> "11.13"]

\* getEngine has returned on the create-new path
EngineResolved == pc \in {"createInstance", "done"} /\ local.engine.ok

\* getEngine has thrown
EngineRejected == pc = "failed" /\ error.kind = "unsupportedEngine"

EngineIs(e) ==
  /\ EngineResolved
  /\ local.engine = e
  /\ \A d \in dbs : d.props.engine = e

\* C3 as stated: "mysql5.7" resolves to MySQL 5.7, "postgresql11.13" to
\* PostgreSQL 11.13, and every other string, the empty one included, fails
\* with the unsupported-engine error.
C3_EveryOtherStringFails ==
  (EngineResolved \/ EngineRejected)
    => CASE this.props.engine = "mysql5.7" -> EngineIs(MySql57)
         [] this.props.engine = "postgresql11.13" -> EngineIs(Postgres1113)
         [] OTHER -> EngineRejected /\ dbs = {}

\* C3 amended: "mysql5.7" resolves to MySQL 5.7, "postgresql11.13" to
\* PostgreSQL 11.13, an empty or missing engine string resolves to the default
\* MySQL 5.7, and every other string fails with the unsupported-engine error.
C3_EngineResolution ==
  (EngineResolved \/ EngineRejected)
    => CASE this.props.engine = "mysql5.7" -> EngineIs(MySql57)
         [] this.props.engine = "postgresql11.13" -> EngineIs(Postgres1113)
         [] this.props.engine \in {"", UNDEF} -> EngineIs(MySql57)
         [] OTHER -> EngineRejected /\ dbs = {}

C3_Witness ==
  /\ pc = "done"
  /\ this.props.engine = ""
  /\ \E d \in dbs : d.props.engine = MySql57

\* the subnet selection the bag carries (undefined when it has none)
GivenVpcSubnets ==
  IF GivenBag.vpcSubnets = ABSENT THEN UNDEF ELSE GivenBag.vpcSubnets

\* C4: without a top-level vpc the created database gets the isolated-private
\* subnet type; with a top-level vpc it gets the bag's vpcSubnets.
C4_SubnetsFollowCaller ==
  \A d \in dbs :
    IF this.props.vpc = UNDEF
      THEN d.props.vpcSubnets = "PRIVATE_ISOLATED"
      ELSE d.props.vpcSubnets = GivenVpcSubnets

\* C5: with a top-level vpc the database is placed in that vpc and no network
\* is ever created; without one exactly one network is created, with zero NAT
\* gateways, and the database uses its isolated private subnets.
C5_NetworkResolution ==
  /\ Cardinality(vpcs) <= 1
  /\ (pc # "new" /\ this.props.vpc # UNDEF) => vpcs = {}
  /\ \A v \in vpcs : v.natGateways = 0
  /\ \A d \in dbs :
       IF this.props.vpc # UNDEF
         THEN d.props.vpc = this.props.vpc
         ELSE /\ \E v \in vpcs : vpcs = {v} /\ d.props.vpc = v.path
              /\ d.props.vpcSubnets = "PRIVATE_ISOLATED"

C5_Witness ==
  /\ pc = "done"
  /\ this.props.vpc = UNDEF
  /\ dbs # {}
  /\ Cardinality(vpcs) = 1

\* C6 as stated: the identifier of the created database is the stack-scoped
\* prefix applied to the logical id given to the constructor, whatever the cdk
\* option holds.
C6_IdentifierFromLogicalId ==
  \A d \in dbs : d.props.instanceIdentifier = "dev-sst-t3-example-" \o this.id

\* C6 amended: the identifier of the created database is the bag's
\* instanceIdentifier when the bag has that key, and otherwise the
\* stack-scoped prefix applied to the construct's node id, which is cdk.id
\* when that is a non-empty string and the logical id otherwise.
C6_IdentifierResolution ==
  \A d \in dbs :
    d.props.instanceIdentifier =
      IF GivenBag.instanceIdentifier # ABSENT
        THEN GivenBag.instanceIdentifier
        ELSE "dev-sst-t3-example-"
               \o (IF NonEmpty(this.props.cdk.id) THEN this.props.cdk.id
                                                  ELSE this.id)

C6_Witness ==
  /\ pc = "done"
  /\ this.props.cdk.id = "custom"
  /\ GivenBag.instanceIdentifier = ABSENT
  /\ \E d \in dbs : d.props.instanceIdentifier = "dev-sst-t3-example-custom"

\* C7: after a successful construction with an existing-instance handle the
\* wrapper holds that handle and cdk.secret and nothing was created; otherwise
\* exactly one database instance was created and the wrapper holds it and its
\* secret.
C7_ExactlyOnePath ==
  pc = "done"
    => IF HandleGiven
         THEN /\ this.cdkInstance = this.props.cdk.instance.handle
              /\ this.secret = this.props.cdk.secret
              /\ dbs = {}
              /\ vpcs = {}
         ELSE \E d \in dbs :
                /\ dbs = {d}
                /\ this.cdkInstance = d.props.path
                /\ this.secret = d.secret
                /\ this.cdkInstance \notin Handles

C7_Witness ==
  /\ pc = "done"
  /\ HandleGiven
  /\ this.props.vpc = UNDEF
  /\ this.props.engine = "mysql5.6"
  /\ this.cdkInstance = "existingInstance"

\* C8: getFunctionBinding changes nothing of the wrapper or the provisioning
\* graph, returns the same descriptor on every call, and the descriptor's
\* instanceArn, secretArn and databaseName are the accessors' values, with
\* the rds-data permission listing exactly the instance ARN.
C8_BindingIsPure ==
  /\ [](\A i \in 1..Len(returned) :
          /\ returned[i] = returned[1]
          /\ returned[i].variables.instanceArn.value
               = "arn:aws:rds:db:" \o this.cdkInstance
          /\ returned[i].variables.secretArn.value
               = "arn:aws:secretsmanager:secret:" \o this.secret
          /\ returned[i].variables.databaseName.value = this.props.databaseName
          /\ returned[i].permissions.rdsData
               = <<"arn:aws:rds:db:" \o this.cdkInstance>>)
  /\ [][pc = "done" => /\ pc' = "done"
                       /\ this' = this
                       /\ dbs' = dbs
                       /\ vpcs' = vpcs
                       /\ error' = error]_vars

C8_Witness ==
  /\ pc = "done"
  /\ Len(returned) >= 2
  /\ dbs # {}

\* C9: the created database uses the bag's instanceType when the bag sets
\* one, and the small burstable default otherwise.
C9_InstanceType ==
  \A d \in dbs :
    IF Contains(GivenBag.instanceType)
      THEN d.props.instanceType = GivenBag.instanceType
      ELSE d.props.instanceType = "t3.small"

C9_Witness ==
  /\ pc = "done"
  /\ GivenBag.instanceType = "m5.large"
  /\ \E d \in dbs : d.props.instanceType = "m5.large"

\* C10: when the constructor fails, no network and no database instance has
\* been registered; a network or a database is registered only after the
\* validation and the engine resolution have succeeded.
C10_NoOrphanOnFailure ==
  /\ pc = "failed"
       => /\ vpcs = {}
          /\ dbs = {}
          /\ error.kind \in {"missingSecret", "conflict", "credentials",
                             "unsupportedEngine"}
  /\ (vpcs # {} \/ dbs # {})
       => /\ ~HandleGiven
          /\ pc \in {"createInstance", "done"}
          /\ local.engine.ok

C10_Witness ==
  /\ pc = "failed"
  /\ error.kind = "unsupportedEngine"
  /\ this.props.vpc = UNDEF

====
